---- MODULE Spec2Model ----
(***************************************************************************)
(* ECL Modbus integration: the shared hub (connection, lock, register      *)
(* reads and writes), the polling coordinator, the number/select write     *)
(* paths and the entry setup, as a state machine.                          *)
(*                                                                         *)
(* Numbers.  A Python number is modelled on a fixed-point grid: Num(n) is  *)
(* the int n/Den or the double nearest to n/Den (Den = 40, so 0.1, 0.5 and *)
(* 0.25 are on the grid).  A binary32 value that is not on the grid is     *)
(* kept exactly, as F32(m, e) = m * 2^e.  None is the Python None.         *)
(***************************************************************************)
EXTENDS Integers, Sequences, FiniteSets, TLC

VARIABLES
    phase,      \* entry setup: "new" | "first_refresh" | "ready" | "not_ready"
    client,     \* hub._client: "none" | "closed" (a handle, not connected) | "open"
    lock,       \* hub._lock: "free" or the thread holding it
    inflight,   \* threads with a wire transaction in flight on the bus
    mem,        \* the controller's holding registers, by PDU address
    data,       \* coordinator.data: Uninit or [key -> value]
    poll,       \* the coordinator's refresh: pc, idx, the dict _read_all builds, noconn
    wr,         \* per writer thread: pc, request, raw value, words, result
    optimistic, \* history: per key, the value a write stored since the running cycle began
    npolls,     \* refresh cycles started so far
    nwrites,    \* write requests started so far
    fin,        \* input of the function under test (function specifications)
    fout,       \* its output
    cur,        \* hub._client as a reference: 0 (None) or the handle it points to
    hs,         \* per client object ever created: "unused" | "new" | "open" | "closed"
    ht,         \* per thread calling into the hub: pc, operation, what the last call ended with
    up,         \* the transport can be opened (the controller is reachable)
    cfg,        \* the hub's configuration: transport, host / port present
    dropped,    \* history: client objects no longer referenced that were left open
    nops,       \* hub calls started so far
    nlink,      \* changes of `up` so far
    entry       \* the config entry: its state, its store in hass.data, the hubs
                \* and coordinators created for it

vars == <<phase, client, lock, inflight, mem, data, poll, wr, optimistic,
          npolls, nwrites, fin, fout, cur, hs, ht, up, cfg, dropped, nops, nlink,
          entry>>

-----------------------------------------------------------------------------
(* Bounds *)

MaxPolls == 2
MaxCycles == 3
MaxWrites == 2
NumWriters == 2
MaxOps == 3
NumHubThreads == 2
MaxLinkChanges == 1
MaxSetups == 6          \* calls of async_setup_entry

-----------------------------------------------------------------------------
(* Python values *)

Den == 8 * 5

None == [k |-> "None"]
Num(n) == [k |-> "num", n |-> n]
F32(m, e) == [k |-> "f32", m |-> m, e |-> e]
NonFinite(s, frac) == [k |-> "nonfinite", s |-> s, frac |-> frac]
NegZero == [k |-> "negzero"]     \* the float -0.0
Str(s) == [k |-> "str", s |-> s]

\* a.b as a grid number (b in tenths)
Dec(a, b) == a * Den + b * (Den \div 10)

\* Python's round(): the integer nearest a/b (b > 0), ties to the even integer
RoundHalfEven(a, b) ==
    LET q == a \div b
        r == a % b
    IN  IF 2 * r < b THEN q
        ELSE IF 2 * r > b THEN q + 1
        ELSE IF q % 2 = 0 THEN q ELSE q + 1

Abs(n) == IF n < 0 THEN -n ELSE n

-----------------------------------------------------------------------------
(* Codec: modbus.py read_float / read_int16, number.py _float_to_regs_be *)

\* the unbiased exponent E with 2^E <= n/Den < 2^(E+1), for 0 < n < Den * 2^24
Exponent(n) ==
    CHOOSE E \in -6..23 :
        IF E >= 0 THEN Den * 2^E <= n /\ n < Den * 2^(E + 1)
        ELSE n < Den /\ Den <= n * 2^(-E) /\ n * 2^(-E) < 2 * Den

\* the binary32 bit fields <<sign, biased exponent, fraction>> as two words
PackWords(s, ex, frac) ==
    <<s * 32768 + ex * 128 + frac \div 65536, frac % 65536>>

\* struct.pack(">f", float(value)) split into [hi, lo]
_float_to_regs_be(value) ==
    IF value.k = "negzero" THEN PackWords(1, 0, 0)
    ELSE IF value.k = "f32" THEN
        LET s == IF value.m < 0 THEN 1 ELSE 0
            a == Abs(value.m)
        IN  IF a >= 2^23 THEN PackWords(s, value.e + 150, a - 2^23)
            ELSE PackWords(s, 0, a)
    ELSE IF value.k = "nonfinite" THEN PackWords(value.s, 255, value.frac)
    ELSE IF value.n = 0 THEN <<0, 0>>
    ELSE
        LET s == IF value.n < 0 THEN 1 ELSE 0
            a == Abs(value.n)
            E == Exponent(a)
            m == RoundHalfEven(a * 2^(23 - E), Den)
            E2 == IF m = 2^24 THEN E + 1 ELSE E
            m2 == IF m = 2^24 THEN 2^23 ELSE m
        IN  PackWords(s, E2 + 127, m2 - 2^23)

\* the Python float m * 2^e (m >= 0), negated when s = 1: a grid number when
\* it is below 2^23 and Den * m * 2^e is an integer
FloatValue(s, m, e) ==
    LET sg == IF s = 1 THEN -1 ELSE 1
    IN  IF m = 0 THEN (IF s = 1 THEN NegZero ELSE Num(0))
        ELSE IF e >= 0 THEN F32(sg * m, e)
        ELSE IF -e <= 30 /\ (Den * m) % 2^(-e) = 0
            THEN Num(sg * ((Den * m) \div 2^(-e)))
        ELSE F32(sg * m, e)

\* raw = (regs[0] << 16) | regs[1]; struct.unpack(">f", raw.to_bytes(4, "big"))
DecodeFloat(regs) ==
    LET s == regs[1] \div 32768
        ex == (regs[1] % 32768) \div 128
        frac == (regs[1] % 128) * 65536 + regs[2]
    IN  IF ex = 255 THEN NonFinite(s, frac)
        ELSE IF ex = 0 THEN FloatValue(s, frac, -149)
        ELSE FloatValue(s, 2^23 + frac, ex - 150)

\* the float -> double conversion inside struct.unpack(">f") on a build whose
\* conversion quiets a signalling NaN: the top fraction bit is set
QuietNaN(value) ==
    IF value.k = "nonfinite" /\ value.frac # 0 /\ value.frac < 2^22
    THEN NonFinite(value.s, value.frac + 2^22)
    ELSE value

\* what read_float can return for the words read: the payload of a signalling
\* NaN is kept or quieted, depending on the interpreter build
ReadFloatValues(regs) == {DecodeFloat(regs), QuietNaN(DecodeFloat(regs))}

\* read_int16's conversion of the word read
DecodeInt16_unsigned(raw, signed) == Num(raw * Den)

DecodeInt16(raw, signed) ==
    IF signed /\ raw > 32767 THEN Num((raw - 65536) * Den) ELSE Num(raw * Den)

-----------------------------------------------------------------------------
(* Register catalog: registers.py (the registers the model enables, in     *)
(* catalog order)                                                          *)

RegisterDef(key, address, reg_type, signed, writable, min_value, max_value, step, value_map) ==
    [key |-> key, address |-> address, reg_type |-> reg_type, scale |-> Num(Den),
     signed |-> signed, writable |-> writable, min_value |-> min_value,
     max_value |-> max_value, step |-> step, value_map |-> value_map]

s3_temperature ==
    RegisterDef("s3_temperature", 4020, "float", TRUE, FALSE, None, None, None, <<>>)

heat_return_temperature_reference ==
    RegisterDef("heat_return_temperature_reference", 21210, "float", TRUE, TRUE,
                Num(Dec(5, 0)), Num(Dec(150, 0)), Num(Dec(0, 1)), <<>>)

operation_mode ==
    RegisterDef("operation_mode", 21000, "int16", FALSE, TRUE, None, None, None,
                (0 :> "Automatic") @@ (1 :> "Comfort") @@ (2 :> "Saving")
                    @@ (3 :> "Frost protection"))

boost_period ==
    RegisterDef("boost_period", 21438, "uint32", TRUE, TRUE,
                Num(Dec(0, 0)), Num(Dec(86400, 0)), Num(Dec(60, 0)), <<>>)

ALL_REGISTERS ==
    <<s3_temperature, heat_return_temperature_reference, operation_mode, boost_period>>

Keys == {ALL_REGISTERS[i].key : i \in DOMAIN ALL_REGISTERS}

RegOf(key) == CHOOSE r \in {ALL_REGISTERS[i] : i \in DOMAIN ALL_REGISTERS} : r.key = key

-----------------------------------------------------------------------------
(* number.py: the value pipeline of async_set_native_value *)

\* round(value / step) is computed on doubles.  0.1 is not a binary fraction:
\* for these (value, step) the exact quotient is a tie k + 0.5 and the double
\* quotient lies just below it, so round() gives k.  (Tabulated from the
\* doubles for the requests of the model, 4.0..7.0 and 148.5..152.0; for the
\* other requests of that range the double quotient rounds as the exact one.)
QuotientBelowTie ==
    {<<n, Dec(0, 1)>> : n \in {162, 174, 182, 194, 202, 214, 222, 234, 242, 254, 274,
                               5954, 5958, 5974, 5978, 5994, 5998, 6014, 6018,
                               6034, 6038, 6054, 6058, 6074, 6078}}

PyRoundQuotient(n, s) ==
    IF <<n, s>> \in QuotientBelowTie THEN n \div s ELSE RoundHalfEven(n, s)

_coerce_step(value, step) ==
    IF step = None \/ step.n = 0 THEN value
    ELSE IF step.n <= 0 THEN value
    ELSE Num(PyRoundQuotient(value.n, step.n) * step.n)

_clamp_nomax(value, min_v, max_v) ==
    IF min_v # None /\ value.n < min_v.n THEN min_v ELSE value

_clamp(value, min_v, max_v) ==
    IF min_v # None /\ value.n < min_v.n THEN min_v
    ELSE IF max_v # None /\ value.n > max_v.n THEN max_v
    ELSE value

\* lines 143-148: the snapped and clamped value
SnapClamp(value, min_v, max_v, step) ==
    _clamp(_coerce_step(value, IF step # None /\ step.n # 0 THEN step ELSE None),
           min_v, max_v)

-----------------------------------------------------------------------------
(* The controller: holding registers by PDU address (manual address - 1)   *)

WordCount(reg_type) ==
    CASE reg_type = "float" -> 2
      [] reg_type = "int16" -> 1
      [] reg_type = "string16" -> 8
      [] reg_type = "string32" -> 16
      [] OTHER -> 0

\* the PDU addresses a register of `count` words occupies
PduRange(reg_address_manual, count) ==
    (reg_address_manual - 1)..(reg_address_manual - 1 + count - 1)

MemInit ==
    (4019 :> 16840) @@ (4020 :> 0)          \* s3_temperature 25.0
    @@ (21209 :> 16800) @@ (21210 :> 0)     \* heat return reference 20.0
    @@ (20999 :> 0)                         \* operation mode 0
    @@ (21437 :> 0) @@ (21438 :> 3600)      \* boost period 3600

\* the words a read of `count` registers returns
WordsAt(m, reg_address_manual, count) ==
    [i \in 1..count |-> m[reg_address_manual - 1 + i - 1]]

\* the registers after `words` are written at the register's address
MemWrite(m, reg_address_manual, words) ==
    [a \in DOMAIN m |->
        IF a \in PduRange(reg_address_manual, Len(words))
        THEN words[a - (reg_address_manual - 1) + 1] ELSE m[a]]

-----------------------------------------------------------------------------
(* Threads and their states *)

PollT == <<"poll", 0>>
W(i) == <<"writer", i>>
Writers == 1..NumWriters
Free == <<"free", 0>>

Uninit == [k |-> "uninit"]      \* coordinator.data before the first refresh
Unset == [k |-> "unset"]        \* a key the running cycle has not stored yet

ReadOutcomes == {"ok", "short", "empty", "error", "ioexc"}
WriteOutcomes == {"ok", "error", "ioexc"}

\* no request on the wire
NoPdu == [fn |-> "none"]

PollIdle ==
    [pc |-> "idle", idx |-> 1, data |-> [k \in Keys |-> Unset], pdu |-> NoPdu,
     noconn |-> TRUE,      \* history: no read of this cycle got a connection
     reads |-> <<>>,       \* history: the keys this cycle has called hub.read_* for
     last_update_success |-> TRUE]

NoRequest == [path |-> "none", key |-> "none", value |-> None]

\* the entry before its first setup: nothing in hass.data[DOMAIN]; hubs and
\* coordinators are numbered as they are created, 0 is "none"
EntryInit ==
    [state |-> "not_loaded",    \* "not_loaded" | "setup_retry" | "loaded" | "failed_unload"
     store |-> FALSE,           \* hass.data[DOMAIN] has a dict for the entry
     hub |-> 0,                 \* store["hub"]
     coordinator |-> 0,         \* store["coordinator"]
     nhubs |-> 0,               \* EclModbusHub objects created so far
     ncoord |-> 0,              \* EclModbusCoordinator objects created so far
     open |-> {}]               \* hubs whose client is connected
WriterIdle == [pc |-> "idle", req |-> NoRequest, raw |-> None, words |-> <<>>,
               pdu |-> NoPdu, result |-> "none"]

\* the worker after its job returned or raised: what the caller got
Returned(result) == [WriterIdle EXCEPT !.result = result]

\* the threads of the statement-level hub model, the client objects they can
\* create (one per call at most), and a thread with no call running
HT(i) == <<"hub", i>>
HubThreads == 1..NumHubThreads
Handles == 1..MaxOps
HubIdle == [pc |-> "idle", op |-> "none", made |-> 0, on |-> 0, ret |-> "none",
            late |-> FALSE]     \* history: a close() from outside has returned
                                \* while this call was running

\* EclModbusHub(transport=..., host=..., port=...): what _ensure_client reads
DEFAULT_SLAVE_ID == 5

TcpConfig == [transport |-> "tcp", host |-> TRUE, port |-> FALSE,
              slave_id |-> DEFAULT_SLAVE_ID]
Configs ==
    { TcpConfig,
      [TcpConfig EXCEPT !.host = FALSE, !.port = TRUE],
      [TcpConfig EXCEPT !.transport = "serial", !.host = FALSE, !.port = TRUE],
      [TcpConfig EXCEPT !.transport = "serial"] }

\* the write requests of the model: calls of async_set_native_value on number
\* entities, of async_select_option on select entities, and of the hub's own
\* write_int16 / write_float.  The entity classes take any RegisterDef; the
\* requests reach each branch of their write methods
Requests ==
    { [path |-> "number", key |-> "heat_return_temperature_reference", value |-> Num(Dec(5, 3))],
      [path |-> "number", key |-> "operation_mode", value |-> Num(Dec(2, 5))],
      [path |-> "number", key |-> "s3_temperature", value |-> Num(Dec(20, 0))],
      [path |-> "number", key |-> "boost_period", value |-> Num(Dec(60, 0))],
      [path |-> "select", key |-> "operation_mode", value |-> Str("Comfort")],
      [path |-> "select", key |-> "operation_mode", value |-> Str("Boost")],
      [path |-> "hub_int16", key |-> "operation_mode", value |-> Num(Dec(3, 0))],
      [path |-> "hub_float", key |-> "heat_return_temperature_reference",
       value |-> Num(Dec(5, 3))] }

Init ==
    /\ phase = "new"
    /\ client = "none"
    /\ lock = Free
    /\ inflight = {}
    /\ mem = MemInit
    /\ data = Uninit
    /\ poll = PollIdle
    /\ wr = [w \in Writers |-> WriterIdle]
    /\ optimistic = [k \in Keys |-> Unset]
    /\ npolls = 0
    /\ nwrites = 0
    /\ fin = None
    /\ fout = None
    /\ cur = 0
    /\ hs = [h \in Handles |-> "unused"]
    /\ ht = [t \in HubThreads |-> HubIdle]
    /\ up = TRUE
    /\ cfg = TcpConfig
    /\ dropped = {}
    /\ nops = 0
    /\ nlink = 0
    /\ entry = EntryInit

hubVars == <<client, lock, inflight, mem>>
connVars == <<cur, hs, ht, up, cfg, dropped, nops, nlink, entry>>
fnVars == <<fin, fout, connVars>>

-----------------------------------------------------------------------------
(* modbus.py EclModbusHub: _ensure_client and close, as effects on _client *)

\* line 62: the handle exists and reports itself connected
EnsureConnected_anyhandle(c) == c # "none"

EnsureConnected(c) == c = "open"

\* lines 66-71: the stale handle is closed and dropped
EnsureDiscard(c) == "none"

\* lines 81 / 103: a new, not yet connected handle is stored
EnsureCreate(c) == "closed"

\* lines 87 / 112: connect() on the stored handle; a failed connect leaves it
EnsureConnect(c, ok) == IF ok THEN "open" ELSE c

\* lines 115-121
close(c) == "none"

\* what connect() can return: a handle that is already connected returns True
ConnectResults(c) == IF c = "open" THEN {TRUE} ELSE BOOLEAN

\* pdu_address = reg_address_manual - 1 (modbus.py lines 131, 210, 230;
\* number.py line 167; select.py line 116)
PduAddress_manual(reg_address_manual) == reg_address_manual

PduAddress(reg_address_manual) == reg_address_manual - 1

\* _read_registers lines 131-136: the read request handed to the client
ReadPdu(reg_address_manual, count) ==
    [fn |-> "read_holding_registers", address |-> PduAddress(reg_address_manual),
     count |-> count, device_id |-> cfg.slave_id]

\* the write request handed to the client: write_register for one word
\* (number.py 186-190, select.py 132-136, modbus.py 211-215), write_registers
\* for the two words [hi, lo] of a float (number.py 175-179, modbus.py 231-235)
WritePdu(reg_address_manual, words) ==
    [fn |-> IF Len(words) = 1 THEN "write_register" ELSE "write_registers",
     address |-> PduAddress(reg_address_manual), values |-> words,
     device_id |-> cfg.slave_id]

-----------------------------------------------------------------------------
(* modbus.py EclModbusCoordinator: one refresh cycle.  _read_all runs in an *)
(* executor thread; publishing or failing happens back on the event loop.  *)

registers == ALL_REGISTERS

PollReg == registers[poll.idx]

\* a call that raised instead of returning
Raise == [k |-> "raise"]

\* read_float / read_int16 on the words of a response; Raise when the
\* conversion raises (read_float indexes regs[1] of a one-word response)
Decode(reg, words) ==
    IF reg.reg_type = "float"
    THEN IF Len(words) < 2 THEN Raise ELSE DecodeFloat(words)
    ELSE DecodeInt16(words[1], reg.signed)

\* data[reg.key] = value, then the next register of the loop
PollStore(value) ==
    [poll EXCEPT !.data[PollReg.key] = value,
                 !.idx = @ + 1,
                 !.pdu = NoPdu,
                 !.pc = IF poll.idx = Len(registers) THEN "publish" ELSE "acquire"]

\* the cycle a fresh refresh starts with
PollBegin == [PollIdle EXCEPT !.pc = "acquire",
                              !.last_update_success = poll.last_update_success]

\* __init__.py line 99: the state the entry is in while the first refresh runs
PhaseAfterSetup_forwarded == "ready"

PhaseAfterSetup == "first_refresh"

\* async_setup_entry up to the first refresh: the hub of the store is reused, a
\* fresh coordinator (data not initialised) starts its first refresh
SetupWithin(cycles) ==
    /\ phase \in {"new", "not_ready"}
    /\ poll.pc = "idle"
    /\ npolls < cycles
    /\ phase' = PhaseAfterSetup
    /\ data' = Uninit
    /\ poll' = [PollBegin EXCEPT !.last_update_success = TRUE]
    /\ optimistic' = [k \in Keys |-> Unset]
    /\ npolls' = npolls + 1
    /\ UNCHANGED <<hubVars, wr, nwrites, fnVars>>

Setup == SetupWithin(MaxPolls)

\* DataUpdateCoordinator arms its timer (update_interval, modbus.py line 254)
\* when a refresh has finished: the timer can fire only with no cycle running
RefreshDue_anytime == TRUE

RefreshDue == poll.pc = "idle"

\* the coordinator's timer starts the next cycle
TickWithin(cycles) ==
    /\ phase = "ready"
    /\ RefreshDue
    /\ npolls < cycles
    /\ poll' = PollBegin
    /\ optimistic' = [k \in Keys |-> Unset]
    /\ npolls' = npolls + 1
    /\ UNCHANGED <<phase, hubVars, data, wr, nwrites, fnVars>>

Tick == TickWithin(MaxPolls)

\* the end of a `with self._lock:` block, left by a return or by an exception
Release_kept(l) == l

Release(l) == Free

\* _read_all, a register type without a reader (uint32): data[key] = None
PollSkip ==
    /\ poll.pc = "acquire"
    /\ WordCount(PollReg.reg_type) = 0
    /\ poll' = PollStore(None)
    /\ UNCHANGED <<phase, hubVars, data, wr, optimistic, npolls, nwrites, fnVars>>

\* _read_registers: take the lock, _ensure_client's check, and with a connected
\* handle send the read request; otherwise the stale handle is dropped and a new
\* one stored
PollAcquire ==
    /\ poll.pc = "acquire"
    /\ WordCount(PollReg.reg_type) > 0
    /\ lock = Free
    /\ lock' = PollT
    /\ IF EnsureConnected(client)
       THEN /\ inflight' = inflight \cup {PollT}
            /\ poll' = [poll EXCEPT !.pc = "txn", !.noconn = FALSE,
                    !.reads = Append(@, PollReg.key),
                    !.pdu = ReadPdu(PollReg.address, WordCount(PollReg.reg_type))]
            /\ UNCHANGED client
       ELSE /\ client' = EnsureCreate(EnsureDiscard(client))
            /\ poll' = [poll EXCEPT !.pc = "ens_conn",
                    !.reads = Append(@, PollReg.key)]
            /\ UNCHANGED inflight
    /\ UNCHANGED <<phase, mem, data, wr, optimistic, npolls, nwrites, fnVars>>

\* connect(): on success the read request is sent; on failure (or when another
\* thread has dropped the handle meanwhile) the exception is caught in
\* _read_registers, which closes and returns None
PollEnsConn ==
    /\ poll.pc = "ens_conn"
    /\ \E ok \in ConnectResults(client) :
        IF ok /\ client # "none"
        THEN /\ client' = EnsureConnect(client, TRUE)
             /\ inflight' = inflight \cup {PollT}
             /\ poll' = [poll EXCEPT !.pc = "txn", !.noconn = FALSE,
                    !.pdu = ReadPdu(PollReg.address, WordCount(PollReg.reg_type))]
             /\ UNCHANGED lock
        ELSE /\ client' = close(client)
             /\ lock' = Release(lock)
             /\ poll' = PollStore(None)
             /\ UNCHANGED inflight
    /\ UNCHANGED <<phase, mem, data, wr, optimistic, npolls, nwrites, fnVars>>

\* the response of read_holding_registers, the rest of _read_registers and the
\* conversion in read_float / read_int16
PollReadEnd ==
    /\ poll.pc = "txn"
    /\ inflight' = inflight \ {PollT}
    /\ lock' = Release(lock)
    /\ \E o \in ReadOutcomes :
        LET count == WordCount(PollReg.reg_type)
            words == IF o = "short" THEN WordsAt(mem, PollReg.address, count - 1)
                     ELSE WordsAt(mem, PollReg.address, count)
        IN  /\ o = "short" => count > 1
            /\ client' = IF o = "ioexc" THEN close(client) ELSE client
            /\ poll' = IF o \in {"ioexc", "error", "empty"} THEN PollStore(None)
                       ELSE IF Decode(PollReg, words) = Raise
                            THEN [poll EXCEPT !.pc = "failed", !.pdu = NoPdu]
                       ELSE PollStore(Decode(PollReg, words))
    /\ UNCHANGED <<phase, mem, data, wr, optimistic, npolls, nwrites, fnVars>>

\* what the coordinator holds after a cycle that raised UpdateFailed
DataAfterUpdateFailed_cleared(d) == IF d = Uninit THEN d ELSE [k \in Keys |-> None]

DataAfterUpdateFailed(d) == d

\* _read_all returned: the coordinator's data becomes the new dict; the first
\* refresh done, async_setup_entry stores the coordinator and forwards the platforms
PollPublish ==
    /\ poll.pc = "publish"
    /\ data' = poll.data
    /\ phase' = IF phase = "first_refresh" THEN "ready" ELSE phase
    /\ poll' = [PollIdle EXCEPT !.last_update_success = TRUE]
    /\ UNCHANGED <<hubVars, wr, optimistic, npolls, nwrites, fnVars>>

\* the entry after _async_update_data raised UpdateFailed (lines 275-278): a
\* failed first refresh makes the setup be retried, a later failure leaves
\* the entry and its timer as they are
PhaseAfterUpdateFailed_stopped(p) == "stopped"

PhaseAfterUpdateFailed(p) == IF p = "first_refresh" THEN "not_ready" ELSE p

\* _read_all raised: UpdateFailed; a failed first refresh ends async_setup_entry
\* (ConfigEntryNotReady) before anything is stored or forwarded
PollFailed ==
    /\ poll.pc = "failed"
    /\ data' = DataAfterUpdateFailed(data)
    /\ phase' = PhaseAfterUpdateFailed(phase)
    /\ poll' = [PollIdle EXCEPT !.last_update_success = FALSE]
    /\ UNCHANGED <<hubVars, wr, optimistic, npolls, nwrites, fnVars>>

-----------------------------------------------------------------------------
(* number.py / select.py / modbus.py: the write paths.  async_set_native_value *)
(* and async_select_option run on the event loop, _write_register_value and   *)
(* the hub's write_int16 / write_float in an executor thread.                 *)

\* scale = float(reg.scale or 1.0); raw_to_write = value / scale if scale != 0
RawToWrite(value, scale) ==
    LET sc == IF scale = None \/ scale.n = 0 THEN Num(Den) ELSE scale
    IN  Num((value.n * Den) \div sc.n)

\* select.py line 57: label -> code
ReverseMap(value_map) ==
    [label \in {value_map[c] : c \in DOMAIN value_map} |->
        CHOOSE c \in DOMAIN value_map : value_map[c] = label]

\* int(value): truncation towards zero
IntOf(value) ==
    IF value.n >= 0 THEN value.n \div Den ELSE -((-value.n) \div Den)

\* async_set_native_value lines 139-152 / async_select_option lines 96-102 /
\* the hub's write call: the raw value of an accepted request, or Raise when
\* validation rejects it
Accept(req) ==
    LET reg == RegOf(req.key)
    IN  CASE req.path = "number" ->
                IF ~reg.writable THEN Raise
                ELSE RawToWrite(
                        SnapClamp(req.value, reg.min_value, reg.max_value, reg.step),
                        reg.scale)
          [] req.path = "select" ->
                IF req.value.s \notin DOMAIN ReverseMap(reg.value_map) THEN Raise
                ELSE IF ~reg.writable THEN Raise
                ELSE Num(ReverseMap(reg.value_map)[req.value.s] * Den)
          [] OTHER -> req.value

\* the `value` argument an INT16 write hands to write_register for the integer
\* val: number.py lines 182-184 mask a signed negative value only; select.py
\* line 134 and modbus.py line 213 always take the low 16 bits
Int16Value_magnitude(path, signed, val) == Abs(val) % 65536

Int16Value(path, signed, val) ==
    IF path = "number"
    THEN IF signed /\ val < 0 THEN (val + 65536) % 65536 ELSE val
    ELSE val % 65536

\* the words the write request carries, or <<>> when encoding raises: number.py
\* lines 173-192, select.py lines 132-136, modbus.py lines 211-215 and 221-235.
\* A value outside 0..65535 makes write_register raise when it packs the request.
WriteWords(req, raw) ==
    LET reg == RegOf(req.key)
        val16 == Int16Value("number", reg.signed, RoundHalfEven(raw.n, Den))
    IN  CASE req.path = "number" /\ reg.reg_type = "float" -> _float_to_regs_be(raw)
          [] req.path = "number" /\ reg.reg_type = "int16" ->
                IF val16 \in 0..65535 THEN <<val16>> ELSE <<>>
          [] req.path = "number" -> <<>>
          [] req.path = "select" -> <<Int16Value("select", reg.signed, IntOf(raw))>>
          [] req.path = "hub_int16" -> <<Int16Value("hub_int16", reg.signed, IntOf(raw))>>
          [] req.path = "hub_float" -> _float_to_regs_be(raw)

UsesLock(req) == req.path \in {"hub_int16", "hub_float"}

\* the except branch of _write_register_value closes the hub; the hub's own
\* write_int16 / write_float only raise
ClientAfterWriteError(req, c) == IF UsesLock(req) THEN c ELSE close(c)

\* with a connected handle: encode and send the request, or raise
AfterEnsure(wrec, c) ==
    LET words == WriteWords(wrec.req, wrec.raw)
    IN  IF words = <<>>
        THEN [wrec |-> Returned("ValueError"),
              client |-> ClientAfterWriteError(wrec.req, c), sends |-> FALSE]
        ELSE [wrec |-> [wrec EXCEPT !.pc = "txn", !.words = words,
                    !.pdu = WritePdu(RegOf(wrec.req.key).address, words)],
              client |-> c, sends |-> TRUE]

\* an executor worker with no job
WorkerFree(w) == wr[w].pc = "idle"

\* a write request (the entity's service call, or a call of the hub); the
\* workers are interchangeable, the job goes to the first free one.  The
\* request is validated on the event loop; the executor job then (the hub's
\* calls: takes the lock and) runs _ensure_client's check, and with a connected
\* handle encodes and sends the request; otherwise the stale handle is dropped
\* and a new one stored
WriteRequest(w) ==
    /\ WorkerFree(w)
    /\ \A v \in Writers : v < w => ~WorkerFree(v)
    /\ phase = "ready"
    /\ nwrites < MaxWrites
    /\ nwrites' = nwrites + 1
    /\ \E req \in Requests :
        LET job == [pc |-> "ens_conn", req |-> req, raw |-> Accept(req),
                    words |-> <<>>, pdu |-> NoPdu, result |-> "none"]
        IN  IF Accept(req) = Raise
            THEN /\ wr' = [wr EXCEPT ![w] = Returned("ValueError")]
                 /\ UNCHANGED hubVars
            ELSE /\ IF UsesLock(req) THEN lock = Free /\ lock' = W(w)
                                     ELSE UNCHANGED lock
                 /\ IF EnsureConnected(client)
                    THEN LET r == AfterEnsure(job, client)
                         IN  /\ wr' = [wr EXCEPT ![w] = r.wrec]
                             /\ client' = r.client
                             /\ inflight' = IF r.sends THEN inflight \cup {W(w)}
                                                      ELSE inflight
                    ELSE /\ client' = EnsureCreate(EnsureDiscard(client))
                         /\ wr' = [wr EXCEPT ![w] = job]
                         /\ UNCHANGED inflight
                 /\ UNCHANGED mem
    /\ UNCHANGED <<phase, data, poll, optimistic, npolls, fnVars>>

\* connect(): a failure raises out of _ensure_client, which the entities call
\* outside their try block
WrEnsConn(w) ==
    /\ wr[w].pc = "ens_conn"
    /\ \E ok \in ConnectResults(client) :
        IF ok /\ client # "none"
        THEN LET r == AfterEnsure(wr[w], EnsureConnect(client, TRUE))
             IN  /\ wr' = [wr EXCEPT ![w] = r.wrec]
                 /\ client' = r.client
                 /\ inflight' = IF r.sends THEN inflight \cup {W(w)} ELSE inflight
                 /\ UNCHANGED lock
        ELSE /\ wr' = [wr EXCEPT ![w] = Returned("ConnectFailed")]
             /\ lock' = IF UsesLock(wr[w].req) THEN Release(lock) ELSE lock
             /\ UNCHANGED <<client, inflight>>
    /\ UNCHANGED <<phase, mem, data, poll, optimistic, npolls, nwrites, fnVars>>

\* the response to write_register / write_registers
WrEnd(w) ==
    /\ wr[w].pc = "txn"
    /\ inflight' = inflight \ {W(w)}
    /\ lock' = IF UsesLock(wr[w].req) THEN Release(lock) ELSE lock
    /\ \E o \in WriteOutcomes :
        IF o = "ok"
        THEN /\ mem' = MemWrite(mem, RegOf(wr[w].req.key).address, wr[w].words)
             /\ wr' = IF UsesLock(wr[w].req)
                      THEN [wr EXCEPT ![w] = Returned("ok")]
                      ELSE [wr EXCEPT ![w].pc = "update", ![w].pdu = NoPdu]
             /\ UNCHANGED client
        ELSE /\ client' = ClientAfterWriteError(wr[w].req, client)
             /\ wr' = [wr EXCEPT ![w] = Returned("WriteFailed")]
             /\ UNCHANGED mem
    /\ UNCHANGED <<phase, data, poll, optimistic, npolls, nwrites, fnVars>>

\* d[key] = value on a Python dict: the key is added when it is not there
DictSet_only(d, key, value) == [j \in {key} |-> value]

DictSet(d, key, value) ==
    [j \in DOMAIN d \cup {key} |-> IF j = key THEN value ELSE d[j]]

\* back on the event loop: coordinator.data[key] = raw_to_write (number.py line
\* 158) or = code (select.py line 108)
WrUpdate(w) ==
    /\ wr[w].pc = "update"
    /\ data' = DictSet(data, wr[w].req.key, wr[w].raw)
    /\ optimistic' = [optimistic EXCEPT ![wr[w].req.key] = wr[w].raw]
    /\ wr' = [wr EXCEPT ![w] = Returned("ok")]
    /\ UNCHANGED <<phase, hubVars, poll, npolls, nwrites, fnVars>>

WriterNext(w) ==
    \/ WriteRequest(w) \/ WrEnsConn(w) \/ WrEnd(w) \/ WrUpdate(w)

PollNext ==
    \/ Setup \/ Tick \/ PollSkip \/ PollAcquire \/ PollEnsConn
    \/ PollReadEnd \/ PollPublish \/ PollFailed

Next == PollNext \/ \E w \in Writers : WriterNext(w)

Spec == Init /\ [][Next]_vars

\* the executor and the event loop run every job they have been given
SpecLive == Spec /\ WF_vars(Next)

\* the coordinator alone, over more cycles: no write requests
PollOnlyNext ==
    \/ SetupWithin(MaxCycles) \/ TickWithin(MaxCycles) \/ PollSkip \/ PollAcquire
    \/ PollEnsConn \/ PollReadEnd \/ PollPublish \/ PollFailed

SpecPoll == Init /\ [][PollOnlyNext]_vars

\* the timer fires, the setup is retried, and the executor runs its job
SpecPollLive == SpecPoll /\ WF_vars(PollOnlyNext)

-----------------------------------------------------------------------------
(* number.py async_set_native_value lines 142-148 as a function of the     *)
(* requested value and the entity's limits                                 *)

\* requested values 4.0 .. 7.0 and 148.5 .. 152.0, in steps of 1/Den
ValueGrid == (Dec(4, 0)..Dec(7, 0)) \cup (Dec(148, 5)..Dec(152, 0))

\* <<min_value, max_value, step>>: the limits of the scenario and those of the
\* catalog's registers (registers.py lines 192-194, 239-241, 371-373, 393-395)
Limits ==
    { <<Num(Dec(5, 0)), Num(Dec(150, 0)), Num(Dec(0, 5))>>,
      <<Num(Dec(5, 0)), Num(Dec(150, 0)), Num(Dec(0, 1))>>,
      <<Num(Dec(5, 0)), Num(Dec(150, 0)), Num(Dec(1, 0))>>,
      <<Num(Dec(0, 0)), Num(Dec(20, 0)), Num(Dec(1, 0))>>,
      <<Num(Dec(0, 5)), Num(Dec(5, 0)), Num(Dec(0, 5))>> }

SetValueInput(n, l) == [value |-> Num(n), min_v |-> l[1], max_v |-> l[2], step |-> l[3]]

InitSetValue ==
    /\ phase = "new"
    /\ client = "none"
    /\ lock = Free
    /\ inflight = {}
    /\ mem = MemInit
    /\ data = Uninit
    /\ poll = PollIdle
    /\ wr = [w \in Writers |-> WriterIdle]
    /\ optimistic = [k \in Keys |-> Unset]
    /\ npolls = 0
    /\ nwrites = 0
    /\ fin \in {SetValueInput(n, l) : n \in ValueGrid, l \in Limits}
    /\ fout = None
    /\ cur = 0
    /\ hs = [h \in Handles |-> "unused"]
    /\ ht = [t \in HubThreads |-> HubIdle]
    /\ up = TRUE
    /\ cfg = TcpConfig
    /\ dropped = {}
    /\ nops = 0
    /\ nlink = 0
    /\ entry = EntryInit

SetValue ==
    /\ fout = None
    /\ fout' = SnapClamp(fin.value, fin.min_v, fin.max_v, fin.step)
    /\ UNCHANGED <<phase, hubVars, data, poll, wr, optimistic, npolls, nwrites, fin,
                   connVars>>

SpecSetValue == InitSetValue /\ [][SetValue]_vars

-----------------------------------------------------------------------------
(* modbus.py read_float lines 177-178 followed by number.py _float_to_regs_be *)
(* (the same struct.pack as modbus.py write_float lines 221-223), over pairs  *)
(* of words from every class of binary32 values                              *)

\* high words: zeros, subnormals, 1.0, 5.3, 20.0, 25.0, the largest finite
\* value, infinities and NaNs of both signs
FloatHighWords ==
    {0, 1, 127, 128, 16256, 16553, 16800, 16840, 32639, 32640, 32672, 32704,
     32767, 32768, 32769, 49024, 65408, 65472, 65535}

FloatLowWords == {0, 1, 32768, 39322, 65535}

InitFloatRoundTrip ==
    /\ phase = "new"
    /\ client = "none"
    /\ lock = Free
    /\ inflight = {}
    /\ mem = MemInit
    /\ data = Uninit
    /\ poll = PollIdle
    /\ wr = [w \in Writers |-> WriterIdle]
    /\ optimistic = [k \in Keys |-> Unset]
    /\ npolls = 0
    /\ nwrites = 0
    /\ fin \in {[words |-> <<w0, w1>>] : w0 \in FloatHighWords, w1 \in FloatLowWords}
    /\ fout = None
    /\ cur = 0
    /\ hs = [h \in Handles |-> "unused"]
    /\ ht = [t \in HubThreads |-> HubIdle]
    /\ up = TRUE
    /\ cfg = TcpConfig
    /\ dropped = {}
    /\ nops = 0
    /\ nlink = 0
    /\ entry = EntryInit

\* the words are read as a float, and the float is encoded for a write
ReadFloatThenEncode ==
    /\ fout = None
    /\ \E v \in ReadFloatValues(fin.words) :
        fout' = [value |-> v, words |-> _float_to_regs_be(v)]
    /\ UNCHANGED <<phase, hubVars, data, poll, wr, optimistic, npolls, nwrites, fin,
                   connVars>>

SpecFloatRoundTrip == InitFloatRoundTrip /\ [][ReadFloatThenEncode]_vars

-----------------------------------------------------------------------------
(* modbus.py read_string lines 189-197 as a function of the words read; a   *)
(* text is the sequence of its character codes                              *)

Text(codes) == [k |-> "text", codes |-> codes]

\* for reg in regs: raw_bytes.extend(reg.to_bytes(2, byteorder="big"))
WordBytes(regs) ==
    [i \in 1..(2 * Len(regs)) |->
        IF i % 2 = 1 THEN regs[(i + 1) \div 2] \div 256 ELSE regs[i \div 2] % 256]

\* bytes.decode("ascii", errors="ignore"): bytes above 0x7F are dropped
IsAscii(b) == b < 128
DecodeAsciiIgnore(bytes) == SelectSeq(bytes, IsAscii)

\* the characters str.strip() removes: \t \n \v \f \r, 0x1C-0x1F and the space
Whitespace == {9, 10, 11, 12, 13, 28, 29, 30, 31, 32}

\* str.strip(chars): the characters of `chars` are removed at both ends
Strip(text, chars) ==
    LET keep == {i \in 1..Len(text) : text[i] \notin chars}
    IN  IF keep = {} THEN <<>>
        ELSE SubSeq(text, CHOOSE i \in keep : \A j \in keep : i <= j,
                          CHOOSE i \in keep : \A j \in keep : j <= i)

\* text = raw_bytes.decode("ascii", errors="ignore").strip("\x00").strip();
\* return text or None
read_string(regs) ==
    LET text == Strip(Strip(DecodeAsciiIgnore(WordBytes(regs)), {0}), Whitespace)
    IN  IF text = <<>> THEN None ELSE Text(text)

\* the bytes a word of a response is made of: NUL, space, "A", and a byte
\* that is not ASCII
SampleBytes == {0, 32, 65, 200}
SampleWords == {hi * 256 + lo : hi \in SampleBytes, lo \in SampleBytes}

\* "AB", "CD"
MiddleWords == {<<16706, 17220>>, <<0, 0>>}

\* "10.10.100.50" followed by four NUL bytes, as the 8 words of a STRING16
AddressWords == <<12592, 11825, 12334, 12592, 12334, 13616, 0, 0>>

\* responses to a read of 4 registers with any first and last word, and the
\* 8 words of the address
StringPayloads ==
    {<<first>> \o mid \o <<last>> :
        first \in SampleWords, mid \in MiddleWords, last \in SampleWords}
    \cup {AddressWords}

InitReadString ==
    /\ phase = "new"
    /\ client = "none"
    /\ lock = Free
    /\ inflight = {}
    /\ mem = MemInit
    /\ data = Uninit
    /\ poll = PollIdle
    /\ wr = [w \in Writers |-> WriterIdle]
    /\ optimistic = [k \in Keys |-> Unset]
    /\ npolls = 0
    /\ nwrites = 0
    /\ fin \in {[words |-> p] : p \in StringPayloads}
    /\ fout = Unset
    /\ cur = 0
    /\ hs = [h \in Handles |-> "unused"]
    /\ ht = [t \in HubThreads |-> HubIdle]
    /\ up = TRUE
    /\ cfg = TcpConfig
    /\ dropped = {}
    /\ nops = 0
    /\ nlink = 0
    /\ entry = EntryInit

ReadString ==
    /\ fout = Unset
    /\ fout' = read_string(fin.words)
    /\ UNCHANGED <<phase, hubVars, data, poll, wr, optimistic, npolls, nwrites, fin,
                   connVars>>

SpecReadString == InitReadString /\ [][ReadString]_vars

-----------------------------------------------------------------------------
(* __init__.py _clamp_scan_interval (lines 33-38, called at line 95) and the *)
(* same computation of the older setup in const.py (lines 462-474), as        *)
(* functions of the option's value.  DEFAULT_SCAN_INTERVAL is imported from   *)
(* the integration's constants, which give it some integer value.            *)

\* options.get(key) of a key that is not set
Missing == [k |-> "missing"]

\* dict.get(key, default)
OptionsGet(value, default) == IF value = Missing THEN default ELSE value

\* try: sec = int(value) / except (TypeError, ValueError): sec = DEFAULT_SCAN_INTERVAL
IntOrDefault(value, default) == IF value.k = "num" THEN IntOf(value) ELSE default

\* return max(5, min(3600, sec))
_clamp_scan_interval_nomax(value, default) ==
    LET sec == IntOrDefault(value, default)
    IN  IF sec < 5 THEN 5 ELSE sec

_clamp_scan_interval(value, default) ==
    LET sec == IntOrDefault(value, default)
        capped == IF 3600 < sec THEN 3600 ELSE sec
    IN  IF capped < 5 THEN 5 ELSE capped

\* const.py lines 462-474
LegacyScanInterval(value, default) ==
    LET sec == IntOrDefault(OptionsGet(value, Num(default * Den)), default)
    IN  IF sec < 5 THEN 5 ELSE IF sec > 3600 THEN 3600 ELSE sec

\* the option's value: integers below, within and above the limits, None, a
\* text that is not a number, or no value at all
ScanIntervalValues ==
    {Num(i * Den) : i \in -3..3603} \cup {None, Str("fast"), Missing}

\* values DEFAULT_SCAN_INTERVAL may have
DefaultScanIntervals == {1, 30, 7200}

InitScanInterval ==
    /\ phase = "new"
    /\ client = "none"
    /\ lock = Free
    /\ inflight = {}
    /\ mem = MemInit
    /\ data = Uninit
    /\ poll = PollIdle
    /\ wr = [w \in Writers |-> WriterIdle]
    /\ optimistic = [k \in Keys |-> Unset]
    /\ npolls = 0
    /\ nwrites = 0
    /\ fin \in {[value |-> v, default |-> d] :
                    v \in ScanIntervalValues, d \in DefaultScanIntervals}
    /\ fout = None
    /\ cur = 0
    /\ hs = [h \in Handles |-> "unused"]
    /\ ht = [t \in HubThreads |-> HubIdle]
    /\ up = TRUE
    /\ cfg = TcpConfig
    /\ dropped = {}
    /\ nops = 0
    /\ nlink = 0
    /\ entry = EntryInit

\* async_setup_entry line 95: entry.options.get(CONF_SCAN_INTERVAL) is None
\* when the option is not set
ClampScanInterval ==
    /\ fout = None
    /\ fout' = [interval |-> _clamp_scan_interval(OptionsGet(fin.value, None), fin.default),
                legacy |-> LegacyScanInterval(fin.value, fin.default)]
    /\ UNCHANGED <<phase, hubVars, data, poll, wr, optimistic, npolls, nwrites, fin,
                   connVars>>

SpecScanInterval == InitScanInterval /\ [][ClampScanInterval]_vars

-----------------------------------------------------------------------------
(* modbus.py read_int16 lines 184-187 as a function of the word read and of  *)
(* `signed`, over every 16-bit word                                          *)

Words16 == 0..65535

ReadInt16Input(w, signed) == [word |-> w, signed |-> signed]

InitReadInt16 ==
    /\ phase = "new"
    /\ client = "none"
    /\ lock = Free
    /\ inflight = {}
    /\ mem = MemInit
    /\ data = Uninit
    /\ poll = PollIdle
    /\ wr = [w \in Writers |-> WriterIdle]
    /\ optimistic = [k \in Keys |-> Unset]
    /\ npolls = 0
    /\ nwrites = 0
    /\ fin \in {ReadInt16Input(w, signed) : w \in Words16, signed \in BOOLEAN}
    /\ fout = None
    /\ cur = 0
    /\ hs = [h \in Handles |-> "unused"]
    /\ ht = [t \in HubThreads |-> HubIdle]
    /\ up = TRUE
    /\ cfg = TcpConfig
    /\ dropped = {}
    /\ nops = 0
    /\ nlink = 0
    /\ entry = EntryInit

read_int16 ==
    /\ fout = None
    /\ fout' = DecodeInt16(fin.word, fin.signed)
    /\ UNCHANGED <<phase, hubVars, data, poll, wr, optimistic, npolls, nwrites, fin,
                   connVars>>

SpecReadInt16 == InitReadInt16 /\ [][read_int16]_vars

-----------------------------------------------------------------------------
(* The INT16 write encodings (number.py lines 180-190, select.py line 134,   *)
(* modbus.py line 213) as functions of the integer to write, followed by     *)
(* read_int16 on the word written                                            *)

Int16Paths == {"number", "select", "hub_int16"}

\* integers around the ends of the signed and unsigned 16-bit ranges
Int16Samples ==
    {-70000, -65537, -65536, -65535, -32769, -32768, -32767, -2, -1, 0, 1, 2,
     250, 999, 32766, 32767, 32768, 32769, 65534, 65535, 65536, 65537, 70000}

WriteInt16Input(v, signed, path) == [value |-> v, signed |-> signed, path |-> path]

\* every signed 16-bit integer on the number path of a signed register, and
\* the samples on every path with either signedness
WriteInt16Inputs ==
    {WriteInt16Input(v, TRUE, "number") : v \in -32768..32767}
    \cup {WriteInt16Input(v, sg, p) : v \in Int16Samples, sg \in BOOLEAN, p \in Int16Paths}

InitWriteInt16 ==
    /\ phase = "new"
    /\ client = "none"
    /\ lock = Free
    /\ inflight = {}
    /\ mem = MemInit
    /\ data = Uninit
    /\ poll = PollIdle
    /\ wr = [w \in Writers |-> WriterIdle]
    /\ optimistic = [k \in Keys |-> Unset]
    /\ npolls = 0
    /\ nwrites = 0
    /\ fin \in WriteInt16Inputs
    /\ fout = None
    /\ cur = 0
    /\ hs = [h \in Handles |-> "unused"]
    /\ ht = [t \in HubThreads |-> HubIdle]
    /\ up = TRUE
    /\ cfg = TcpConfig
    /\ dropped = {}
    /\ nops = 0
    /\ nlink = 0
    /\ entry = EntryInit

\* the write: the value handed to write_register
WriteInt16 ==
    /\ fout = None
    /\ fout' = [value |-> Int16Value(fin.path, fin.signed, fin.value), back |-> None]
    /\ UNCHANGED <<phase, hubVars, data, poll, wr, optimistic, npolls, nwrites, fin,
                   connVars>>

\* a value that fits a register is stored by the controller and read back
ReadBackInt16 ==
    /\ fout # None
    /\ fout.back = None
    /\ fout.value \in Words16
    /\ fout' = [fout EXCEPT !.back = DecodeInt16(fout.value, fin.signed)]
    /\ UNCHANGED <<phase, hubVars, data, poll, wr, optimistic, npolls, nwrites, fin,
                   connVars>>

SpecWriteInt16 == InitWriteInt16 /\ [][WriteInt16 \/ ReadBackInt16]_vars

-----------------------------------------------------------------------------
(* modbus.py EclModbusHub at statement level: _ensure_client (lines 60-113)  *)
(* and close (lines 115-121) as the threads that call them interleave.  A    *)
(* read (_read_registers) and the hub's own writes hold hub._lock; the       *)
(* entities' _write_register_value and a close() from outside do not.        *)

\* what hub._client looks like to `is not None` / `.connected`
ClientStatus(c, h) ==
    IF c = 0 THEN "none" ELSE IF h[c] = "open" THEN "open" ELSE "closed"

\* the client object hub._client pointed to, when the reference is overwritten
\* while that object is open
Drop(c, h) == IF c # 0 /\ h[c] = "open" THEN {c} ELSE {}

Ops == {"read", "entity_write", "hub_write", "close"}

\* _read_registers line 125, write_int16 line 205, write_float line 225
Locked(op) == op \in {"read", "hub_write"}

\* lines 74-76 and 93-94: the transport's address is missing
MissingConfig_ignored(c) == FALSE

MissingConfig(c) == IF c.transport = "tcp" THEN ~c.host ELSE ~c.port

\* close lines 117-120: whether close() goes on after the client's close() raised
CloseContinues_propagates(raised) == ~raised

CloseContinues(raised) == TRUE

\* connect() on the object hub._client points to
ConnectOk(c, h, link) == c # 0 /\ (link \/ h[c] = "open")

\* what a transaction on the wire can end with
TxnOutcomes(c, h, link) ==
    IF link /\ h[c] = "open" THEN {"ok", "error", "ioexc"} ELSE {"ioexc"}

otherVars == <<phase, inflight, mem, data, poll, wr, optimistic, npolls, nwrites,
               fin, fout, entry>>

InitHub ==
    /\ phase = "new"
    /\ client = "none"
    /\ lock = Free
    /\ inflight = {}
    /\ mem = MemInit
    /\ data = Uninit
    /\ poll = PollIdle
    /\ wr = [w \in Writers |-> WriterIdle]
    /\ optimistic = [k \in Keys |-> Unset]
    /\ npolls = 0
    /\ nwrites = 0
    /\ fin = None
    /\ fout = None
    /\ cur = 0
    /\ hs = [h \in Handles |-> "unused"]
    /\ ht = [t \in HubThreads |-> HubIdle]
    /\ up \in BOOLEAN
    /\ cfg \in Configs
    /\ dropped = {}
    /\ nops = 0
    /\ nlink = 0
    /\ entry = EntryInit

\* the call of thread t returns (or raises) to its caller
HubReturn(t, r) ==
    /\ ht' = [ht EXCEPT ![t] = [HubIdle EXCEPT !.ret = r]]
    /\ lock' = IF Locked(ht[t].op) THEN Release(lock) ELSE lock

HubGoto(t, pc) ==
    /\ ht' = [ht EXCEPT ![t].pc = pc]
    /\ UNCHANGED lock

\* a thread calls into the hub: a register read, a write through an entity, a
\* write through the hub, or close(); ret keeps what its previous call ended with
HubCall(t) ==
    /\ ht[t].pc = "idle"
    /\ \A v \in HubThreads : v < t => ht[v].pc # "idle"
    /\ nops < MaxOps
    /\ nops' = nops + 1
    /\ \E op \in Ops :
        /\ IF Locked(op) THEN lock = Free /\ lock' = HT(t) ELSE UNCHANGED lock
        /\ ht' = [ht EXCEPT ![t] = [pc |-> IF op = "close" THEN "c116" ELSE "e62",
                                    op |-> op, made |-> 0, on |-> 0,
                                    ret |-> ht[t].ret, late |-> FALSE]]
    /\ UNCHANGED <<client, cur, hs, up, cfg, dropped, nlink, otherVars>>

\* line 62: if self._client is not None and self._client.connected: return
E62(t) ==
    /\ ht[t].pc = "e62"
    /\ HubGoto(t, IF EnsureConnected(client) THEN "txn" ELSE "e66")
    /\ UNCHANGED <<client, cur, hs, up, cfg, dropped, nops, nlink, otherVars>>

\* lines 66-69: if self._client is not None: self._client.close()
E66(t) ==
    /\ ht[t].pc = "e66"
    /\ IF cur # 0
       THEN /\ hs' = [hs EXCEPT ![cur] = "closed"]
            /\ HubGoto(t, "e71")
       ELSE /\ HubGoto(t, "e74")
            /\ UNCHANGED hs
    /\ client' = ClientStatus(cur, hs')
    /\ UNCHANGED <<cur, up, cfg, dropped, nops, nlink, otherVars>>

\* line 71: self._client = None
E71(t) ==
    /\ ht[t].pc = "e71"
    /\ cur' = 0
    /\ dropped' = dropped \cup Drop(cur, hs)
    /\ client' = ClientStatus(cur', hs)
    /\ HubGoto(t, "e74")
    /\ UNCHANGED <<hs, up, cfg, nops, nlink, otherVars>>

\* lines 74-85 / 93-110: the address check, then self._client = <new client>
E74(t) ==
    /\ ht[t].pc = "e74"
    /\ IF MissingConfig(cfg)
       THEN /\ HubGoto(t, "ens_raised")
            /\ UNCHANGED <<client, cur, hs, dropped>>
       ELSE LET h == CHOOSE x \in Handles :
                        hs[x] = "unused" /\ \A y \in Handles : y < x => hs[y] # "unused"
            IN  /\ hs' = [hs EXCEPT ![h] = "new"]
                /\ cur' = h
                /\ dropped' = dropped \cup Drop(cur, hs)
                /\ client' = ClientStatus(cur', hs')
                /\ ht' = [ht EXCEPT ![t].pc = "e87", ![t].made = @ + 1]
                /\ UNCHANGED lock
    /\ UNCHANGED <<up, cfg, nops, nlink, otherVars>>

\* lines 87-88 / 112-113: if not self._client.connect(): raise
E87(t) ==
    /\ ht[t].pc = "e87"
    /\ IF ConnectOk(cur, hs, up)
       THEN /\ hs' = [hs EXCEPT ![cur] = "open"]
            /\ HubGoto(t, "txn")
       ELSE /\ HubGoto(t, "ens_raised")
            /\ UNCHANGED hs
    /\ client' = ClientStatus(cur, hs')
    /\ UNCHANGED <<cur, up, cfg, dropped, nops, nlink, otherVars>>

\* _ensure_client raised: _read_registers catches and calls close() (lines
\* 137-152); the entities call it outside their try and the hub's writes have
\* no handler, so the caller gets the exception
EnsRaised(t) ==
    /\ ht[t].pc = "ens_raised"
    /\ IF ht[t].op = "read" THEN HubGoto(t, "c116") ELSE HubReturn(t, "connect_error")
    /\ UNCHANGED <<client, cur, hs, up, cfg, dropped, nops, nlink, otherVars>>

\* _ensure_client has returned: without a client the hub's calls give up
\* (lines 128, 207, 227) and the entity's call raises into its except branch;
\* otherwise the request goes out on the client self._client refers to now
Txn(t) ==
    /\ ht[t].pc = "txn"
    /\ IF cur = 0
       THEN CASE ht[t].op = "read" -> HubReturn(t, "no_value")
              [] ht[t].op = "hub_write" -> HubReturn(t, "write_error")
              [] OTHER -> HubGoto(t, "c116")
       ELSE /\ ht' = [ht EXCEPT ![t].pc = "wire", ![t].on = cur]
            /\ UNCHANGED lock
    /\ UNCHANGED <<client, cur, hs, up, cfg, dropped, nops, nlink, otherVars>>

\* the response, or the exception, of the request that is on the wire
Wire(t) ==
    /\ ht[t].pc = "wire"
    /\ \E o \in TxnOutcomes(ht[t].on, hs, up) :
            CASE ht[t].op = "read" ->
                    IF o = "ok" THEN HubReturn(t, "value")
                    ELSE IF o = "error" THEN HubReturn(t, "no_value")
                    ELSE HubGoto(t, "c116")
              [] ht[t].op = "hub_write" ->
                    HubReturn(t, IF o = "ok" THEN "written" ELSE "write_error")
              [] OTHER ->
                    IF o = "ok" THEN HubReturn(t, "written") ELSE HubGoto(t, "c116")
    /\ UNCHANGED <<client, cur, hs, up, cfg, dropped, nops, nlink, otherVars>>

\* close lines 116-120: if self._client is not None: try: self._client.close()
C116(t) ==
    /\ ht[t].pc = "c116"
    /\ IF cur # 0
       THEN /\ hs' = [hs EXCEPT ![cur] = "closed"]
            /\ \E raised \in BOOLEAN :
                IF CloseContinues(raised) THEN HubGoto(t, "c121")
                ELSE HubReturn(t, "close_raised")
       ELSE /\ HubGoto(t, "c121")
            /\ UNCHANGED hs
    /\ client' = ClientStatus(cur, hs')
    /\ UNCHANGED <<cur, up, cfg, dropped, nops, nlink, otherVars>>

\* close line 121: self._client = None; then the caller of close() goes on:
\* _read_registers returns None, _write_register_value re-raises
C121(t) ==
    /\ ht[t].pc = "c121"
    /\ cur' = 0
    /\ dropped' = dropped \cup Drop(cur, hs)
    /\ client' = ClientStatus(cur', hs)
    /\ LET r == CASE ht[t].op = "close" -> "closed"
                   [] ht[t].op = "read" -> "no_value"
                   [] OTHER -> "write_error"
       IN  ht' = [u \in HubThreads |->
                    IF u = t THEN [HubIdle EXCEPT !.ret = r]
                    ELSE IF ht[t].op = "close" /\ ht[u].pc # "idle"
                         THEN [ht[u] EXCEPT !.late = TRUE]
                    ELSE ht[u]]
    /\ lock' = IF Locked(ht[t].op) THEN Release(lock) ELSE lock
    /\ UNCHANGED <<hs, up, cfg, nops, nlink, otherVars>>

\* the transport goes away or comes back
LinkChange ==
    /\ nlink < MaxLinkChanges
    /\ nlink' = nlink + 1
    /\ up' = ~up
    /\ UNCHANGED <<client, lock, cur, hs, ht, cfg, dropped, nops, otherVars>>

HubThreadNext(t) ==
    \/ HubCall(t) \/ E62(t) \/ E66(t) \/ E71(t) \/ E74(t) \/ E87(t)
    \/ EnsRaised(t) \/ Txn(t) \/ Wire(t) \/ C116(t) \/ C121(t)

HubNext == LinkChange \/ \E t \in HubThreads : HubThreadNext(t)

SpecHub == InitHub /\ [][HubNext]_vars

-----------------------------------------------------------------------------
(* number.py async_set_native_value lines 142-158 followed by native_value   *)
(* (lines 120-135) on the entry it has stored, as a function of the request, *)
(* the entity's limits and the register's scale                              *)

\* native_value: None without a number in the snapshot, else float(raw) times
\* float(reg.scale or 1.0)
native_value_unscaled(raw, scale) == raw

native_value(raw, scale) ==
    LET sc == IF scale = None \/ scale.n = 0 THEN Num(Den) ELSE scale
    IN  CASE raw.k = "num" -> Num((raw.n * sc.n) \div Den)
          [] raw.k = "f32" -> IF sc.n = 2 * Den THEN F32(raw.m, raw.e + 1) ELSE raw
          [] raw.k = "nonfinite" -> raw
          [] OTHER -> None

\* the scales of the catalog (1.0 by default, 2.0 at registers.py line 374),
\* and a scale of 0 or None
Scales == {None, Num(0), Num(Den), Num(2 * Den)}

InitScale ==
    /\ phase = "new"
    /\ client = "none"
    /\ lock = Free
    /\ inflight = {}
    /\ mem = MemInit
    /\ data = Uninit
    /\ poll = PollIdle
    /\ wr = [w \in Writers |-> WriterIdle]
    /\ optimistic = [k \in Keys |-> Unset]
    /\ npolls = 0
    /\ nwrites = 0
    /\ fin \in {[value |-> Num(n), min_v |-> l[1], max_v |-> l[2], step |-> l[3],
                 scale |-> sc] : n \in ValueGrid, l \in Limits, sc \in Scales}
    /\ fout = None
    /\ cur = 0
    /\ hs = [h \in Handles |-> "unused"]
    /\ ht = [t \in HubThreads |-> HubIdle]
    /\ up = TRUE
    /\ cfg = TcpConfig
    /\ dropped = {}
    /\ nops = 0
    /\ nlink = 0
    /\ entry = EntryInit

\* the write has succeeded: coordinator.data[key] = raw_to_write (line 158), and
\* the entity's state is written from native_value
SetThenShow ==
    /\ fout = None
    /\ LET raw == RawToWrite(SnapClamp(fin.value, fin.min_v, fin.max_v, fin.step),
                             fin.scale)
       IN  fout' = [raw |-> raw, shown |-> native_value(raw, fin.scale)]
    /\ UNCHANGED <<phase, hubVars, data, poll, wr, optimistic, npolls, nwrites, fin,
                   connVars>>

SpecScale == InitScale /\ [][SetThenShow]_vars

-----------------------------------------------------------------------------
(* select.py: async_select_option (lines 94-110) followed by current_option  *)
(* (lines 77-92), as a function of the option chosen, the register's value   *)
(* map and the snapshot entry                                                *)

\* current_option on the snapshot entry raw: None without an entry or when
\* int(raw) raises, else self._options_map.get(int(raw))
current_option_first(raw, value_map) ==
    Str(value_map[CHOOSE c \in DOMAIN value_map : \A b \in DOMAIN value_map : c <= b])

current_option(raw, value_map) ==
    IF raw.k # "num" THEN None
    ELSE IF IntOf(raw) \in DOMAIN value_map THEN Str(value_map[IntOf(raw)])
    ELSE None

\* the value maps of the writable registers (registers.py lines 203-208 and
\* 421-424)
ValueMaps == {operation_mode.value_map, (0 :> "Off") @@ (1 :> "On")}

\* the options asked for: every label of the maps and one that is in neither
OptionLabels == {"Automatic", "Comfort", "Saving", "Frost protection", "Off", "On", "Boost"}

\* snapshot entries: codes inside and outside the maps, a fraction stored by a
\* number entity, None and a text
SnapshotEntries ==
    {Num(c * Den) : c \in -2..6} \cup {Num(65535 * Den), Num(Dec(2, 5)), None, Str("On")}

InitSelect ==
    /\ phase = "new"
    /\ client = "none"
    /\ lock = Free
    /\ inflight = {}
    /\ mem = MemInit
    /\ data = Uninit
    /\ poll = PollIdle
    /\ wr = [w \in Writers |-> WriterIdle]
    /\ optimistic = [k \in Keys |-> Unset]
    /\ npolls = 0
    /\ nwrites = 0
    /\ fin \in {[option |-> o, value_map |-> vm, raw |-> r] :
                    o \in OptionLabels, vm \in ValueMaps, r \in SnapshotEntries}
    /\ fout = None
    /\ cur = 0
    /\ hs = [h \in Handles |-> "unused"]
    /\ ht = [t \in HubThreads |-> HubIdle]
    /\ up = TRUE
    /\ cfg = TcpConfig
    /\ dropped = {}
    /\ nops = 0
    /\ nlink = 0
    /\ entry = EntryInit

\* the option is looked up (an unknown one raises ValueError), its code is
\* written as int(code) & 0xFFFF and stored in the snapshot, and the state is
\* written from current_option; `before` is the option shown for the entry the
\* snapshot held
SelectThenShow ==
    /\ fout = None
    /\ LET before == current_option(fin.raw, fin.value_map)
       IN  IF fin.option \notin DOMAIN ReverseMap(fin.value_map)
           THEN fout' = [accepted |-> FALSE, word |-> -1, shown |-> before,
                         before |-> before]
           ELSE LET code == ReverseMap(fin.value_map)[fin.option]
                IN  fout' = [accepted |-> TRUE,
                             word |-> Int16Value("select", FALSE, code),
                             shown |-> current_option(Num(code * Den), fin.value_map),
                             before |-> before]
    /\ UNCHANGED <<phase, hubVars, data, poll, wr, optimistic, npolls, nwrites, fin,
                   connVars>>

SpecSelect == InitSelect /\ [][SelectThenShow]_vars

-----------------------------------------------------------------------------
(* __init__.py: the entry's life cycle.  Home Assistant calls                *)
(* async_setup_entry for an entry that is not loaded (again after            *)
(* ConfigEntryNotReady) and async_unload_entry for a loaded one; a reload is *)
(* an unload followed by a setup.                                            *)

\* store.get("hub") after _entry_store (lines 60, 72): the stored hub, or none
StoreGetHub_none(e) == 0

StoreGetHub(e) == IF e.store THEN e.hub ELSE 0

\* async_setup_entry: the store is created when missing, the hub is taken from
\* it or created and stored (lines 72-92), a new coordinator is created (96)
\* and refreshed (99), which may raise ConfigEntryNotReady and leaves the hub
\* connected or not, as do the polls and writes that follow; only then are the coordinator stored and the platforms
\* forwarded (101-106)
EntrySetup ==
    /\ entry.state \in {"not_loaded", "setup_retry"}
    /\ entry.ncoord < MaxSetups
    /\ \E ok \in BOOLEAN, connected \in BOOLEAN :
        LET found == StoreGetHub(entry)
            hub == IF found = 0 THEN entry.nhubs + 1 ELSE found
        IN  entry' = [state |-> IF ok THEN "loaded" ELSE "setup_retry",
                      store |-> TRUE,
                      hub |-> hub,
                      coordinator |-> IF ok THEN entry.ncoord + 1
                                      ELSE IF entry.store THEN entry.coordinator ELSE 0,
                      nhubs |-> IF found = 0 THEN entry.nhubs + 1 ELSE entry.nhubs,
                      ncoord |-> entry.ncoord + 1,
                      open |-> IF connected THEN entry.open \cup {hub}
                               ELSE entry.open \ {hub}]
    /\ UNCHANGED <<phase, hubVars, data, poll, wr, optimistic, npolls, nwrites, fin,
                   fout, cur, hs, ht, up, cfg, dropped, nops, nlink>>

\* async_unload_entry: the platforms are unloaded, the stored hub is closed
\* whatever came of that (lines 117-121), and the store is popped when the
\* unload succeeded (123-124)
EntryUnload ==
    /\ entry.state = "loaded"
    /\ \E unload_ok \in BOOLEAN :
        entry' = IF unload_ok
                 THEN [entry EXCEPT !.state = "not_loaded", !.store = FALSE,
                                    !.hub = 0, !.coordinator = 0,
                                    !.open = @ \ {entry.hub}]
                 ELSE [entry EXCEPT !.state = "failed_unload",
                                    !.open = @ \ {entry.hub}]
    /\ UNCHANGED <<phase, hubVars, data, poll, wr, optimistic, npolls, nwrites, fin,
                   fout, cur, hs, ht, up, cfg, dropped, nops, nlink>>

EntryNext == EntrySetup \/ EntryUnload

SpecEntry == Init /\ [][EntryNext]_vars

-----------------------------------------------------------------------------
(* Properties *)

\* the value a read of key k would decode from the controller's registers now
CurrentValue(k) ==
    LET reg == RegOf(k)
    IN  IF WordCount(reg.reg_type) = 0 THEN None
        ELSE Decode(reg, WordsAt(mem, reg.address, WordCount(reg.reg_type)))

\* the step in which writer w's request returns to its caller with `results`
Returns(w, results) ==
    /\ wr'[w] # wr[w]
    /\ wr'[w].pc = "idle"
    /\ wr'[w].result \in results

\* C1: at most one wire transaction (a poll read or a write of the number,
\* select or hub paths) is in flight at any time.
C1_OneTransactionInFlight == Cardinality(inflight) <= 1

\* C2: a failed read of one register (I/O exception, failed connect, error,
\* empty or short response) never aborts the poll cycle: no cycle ends with
\* _read_all raising.
C2_ReadFailureNeverAbortsCycle == poll.pc # "failed"

\* C3: a cycle in which no read got a connection publishes nothing: the
\* previously published snapshot stays as it was.
C3_ConnectFailureKeepsSnapshot ==
    [][(poll.pc = "publish" /\ poll'.pc = "idle" /\ poll.noconn /\ data # Uninit)
        => data' = data]_vars

\* C4: when a write fails (connect failure, transport exception, error or
\* empty response), on any write path, the connection handle is left closed
\* and the snapshot unchanged.
C4_FailedWriteClosesConnection ==
    [][\A w \in Writers :
        Returns(w, {"ConnectFailed", "WriteFailed"})
            => (client' # "open" /\ data' = data)]_vars

\* C5: after a successful setValue on key k the snapshot entry of k is the
\* value the words put on the wire decode to, and no other entry changes.
C5_SnapshotHoldsValueOnWire ==
    [][\A w \in Writers :
        (wr[w].pc = "update" /\ wr'[w].pc = "idle")
            => LET k == wr[w].req.key
               IN  /\ data'[k] = Decode(RegOf(k), wr[w].words)
                   /\ \A j \in Keys \ {k} : data'[j] = data[j]]_vars

\* C6: once a write of key k has updated the snapshot, no poll cycle that
\* began before the write replaces the entry of k with an older value: the
\* entry is the written value, or what the controller holds now, or absent.
C6_WrittenValueNotReplacedByOlder ==
    \A k \in Keys :
        optimistic[k] # Unset => data[k] \in {optimistic[k], CurrentValue(k), None}

\* C7: when _read_all raises, the cycle is reported as failed and the
\* previously published snapshot is retained unchanged.
C7_FailedCycleKeepsSnapshot ==
    [][(poll.pc = "failed" /\ poll'.pc = "idle")
        => (data' = data /\ ~poll'.last_update_success)]_vars

\* C7 witness: a refresh after the first one has failed and the snapshot of
\* the earlier cycle is still there.
C7_Witness ==
    /\ phase = "ready"
    /\ poll.pc = "idle"
    /\ ~poll.last_update_success
    /\ data # Uninit
    /\ \E k \in Keys : data[k] # None

\* C8: whenever the platforms are set up (an entity can read the snapshot) the
\* snapshot is an initialised map, and after a failed first refresh no platform
\* is set up.
C8_FirstRefreshBeforeConsumers ==
    /\ phase = "ready" => (data # Uninit /\ DOMAIN data = Keys)
    /\ (data = Uninit /\ poll.pc = "idle" /\ ~poll.last_update_success)
            => phase = "not_ready"
    /\ data = Uninit => \A w \in Writers : wr[w] = WriterIdle

\* C8 witness: the first refresh has published and the platforms are set up
\* before any further cycle.
C8_Witness ==
    /\ phase = "ready"
    /\ npolls = 1
    /\ poll.pc = "idle"
    /\ data # Uninit

C10_SnapThenClampWithinLimits ==
    fout # None =>
        LET v == fin.value.n
            lo == fin.min_v.n
            hi == fin.max_v.n
            st == fin.step.n
            snapped == _coerce_step(fin.value, fin.step).n
        IN  /\ lo <= fout.n /\ fout.n <= hi
            /\ snapped % st = 0
            /\ 2 * Abs(snapped - v) <= st
            /\ fout.n = IF snapped < lo THEN lo ELSE IF snapped > hi THEN hi ELSE snapped
            /\ (lo = Dec(5, 0) /\ hi = Dec(150, 0) /\ st = Dec(0, 5))
                => /\ v = Dec(151, 0) => fout = Num(Dec(150, 0))
                   /\ v = Dec(5, 3) => fout = Num(Dec(5, 5))

\* C10 witness: the request of 151 under limits 5, 150 and step 0.5 has been
\* snapped and clamped to 150.
C10_Witness ==
    /\ fin # None
    /\ fin.value = Num(Dec(151, 0))
    /\ fin.min_v = Num(Dec(5, 0))
    /\ fin.max_v = Num(Dec(150, 0))
    /\ fin.step = Num(Dec(0, 5))
    /\ fout = Num(Dec(150, 0))

\* the step in which thread t's call `op` into the hub returns with `rets`
HubReturns(t, op, rets) ==
    /\ ht[t].op = op
    /\ ht[t].pc # "idle"
    /\ ht'[t].pc = "idle"
    /\ ht'[t].ret \in rets

\* C11: close() never raises, whatever the client's own close() does and also
\* with no client, and it leaves the hub without a handle; a call that then
\* finds no handle does not go on to its transaction but to a new connect.
C11_CloseNeverRaisesLeavesNoHandle ==
    [][\A t \in HubThreads :
        /\ HubReturns(t, "close", {"closed", "close_raised"})
            => (ht'[t].ret = "closed" /\ cur' = 0 /\ client' = "none")
        /\ (ht[t].pc = "e62" /\ ht'[t].pc # "e62" /\ cur = 0)
            => ht'[t].pc = "e66"]_vars

\* C11 witness: with a hub that can connect, close() has been called twice in
\* a row (no other call creates no client) and the hub holds no handle.
C11_Witness ==
    /\ nops = 2
    /\ \A t \in HubThreads : ht[t].pc = "idle"
    /\ ht[1].ret = "closed"
    /\ ~MissingConfig(cfg)
    /\ cur = 0
    /\ \A h \in Handles : hs[h] = "unused"

\* the step in which thread t executes the statement at pc
HubStep(t, pc) == ht[t].pc = pc /\ [ht'[t] EXCEPT !.late = ht[t].late] # ht[t]

\* the handles that a step creates
Created == {h \in Handles : hs[h] = "unused" /\ hs'[h] # "unused"}

\* C12: _ensure_client returns at once, closing and opening nothing, when the
\* current handle reports itself connected; otherwise it closes and discards
\* the stale handle, creates exactly one new handle and raises when connect()
\* fails; with the host (TCP) or the port (serial) missing it raises without
\* creating a handle.
C12_EnsureClientIdempotent ==
    [][\A t \in HubThreads :
        /\ HubStep(t, "e62")
            => /\ hs' = hs /\ cur' = cur
               /\ ht'[t].pc = IF client = "open" THEN "txn" ELSE "e66"
        /\ HubStep(t, "e66")
            => /\ cur' = cur /\ Created = {}
               /\ IF cur # 0 THEN hs'[cur] = "closed" /\ ht'[t].pc = "e71"
                  ELSE hs' = hs /\ ht'[t].pc = "e74"
        /\ HubStep(t, "e71") => (cur' = 0 /\ hs' = hs /\ ht'[t].pc = "e74")
        /\ HubStep(t, "e74")
            => IF \/ cfg.transport = "tcp" /\ ~cfg.host
                  \/ cfg.transport = "serial" /\ ~cfg.port
               THEN hs' = hs /\ cur' = cur /\ ht'[t].pc = "ens_raised"
               ELSE /\ Cardinality(Created) = 1
                    /\ Created = {cur'}
                    /\ \A h \in Handles \ Created : hs'[h] = hs[h]
                    /\ ht'[t].pc = "e87"
        /\ HubStep(t, "e87")
            => /\ cur' = cur /\ Created = {}
               /\ \/ ht'[t].pc = "txn" /\ client' = "open"
                  \/ ht'[t].pc = "ens_raised" /\ client' # "open"
        /\ ht'[t].made <= 1]_vars

\* C12 witness: a call found the handle of an earlier call connected and went
\* straight to its transaction: one handle was ever created, and it is open.
C12_Witness ==
    /\ nops = 2
    /\ ht[1].pc = "txn"
    /\ ht[1].made = 0
    /\ ht[2].pc = "idle"
    /\ client = "open"
    /\ Cardinality({h \in Handles : hs[h] # "unused"}) = 1

\* the handles that are open now
Live == {h \in Handles : hs[h] = "open"}

\* C13: under any interleaving of reads, entity writes and close() the hub
\* has at most one open handle, and no handle was dropped while open.
C13_AtMostOneLiveHandle == Cardinality(Live) <= 1 /\ dropped = {}

\* the step in which the read of the register at hand ends without a value:
\* None is stored for it, or the read call raises
ReadFails ==
    /\ poll.pc \in {"ens_conn", "txn"}
    /\ poll'.pc \notin {"ens_conn", "txn"}
    /\ (poll'.pc = "failed" \/ poll'.data[PollReg.key] = None)

\* C14: a failed read, whatever its cause (transport exception, error, empty
\* or short response, failed connect), returns None without raising and leaves
\* the connection handle closed.
C14_FailedReadClosesConnection ==
    [][ReadFails => (poll'.pc # "failed" /\ client' # "open")]_vars

\* C15: whatever the response to a register's read request carries (also
\* fewer words than the register's type needs), the read and its conversion
\* return to _read_all, with a value or None for that register: the call does
\* not raise.
C15_ShortResponseYieldsNoValue ==
    [][(poll.pc = "txn" /\ poll'.pc # "txn")
        => /\ poll'.pc \in {"acquire", "publish"}
           /\ poll'.data[PollReg.key] # Unset]_vars

\* C16: a failed connect is not permanent.  A call that does not find a
\* connected handle (none, or the one a failed connect left behind) goes on to
\* a new connect attempt and not to its transaction, and a connect attempt made
\* while the transport is available succeeds and the call goes on to its
\* transaction.
C16_ConnectFailureRecoverable ==
    [][\A t \in HubThreads :
        /\ (HubStep(t, "e62") /\ client # "open") => ht'[t].pc = "e66"
        /\ (HubStep(t, "e87") /\ up /\ cur # 0)
            => (ht'[t].pc = "txn" /\ client' = "open")
        /\ (HubStep(t, "wire") /\ ht'[t].pc = "idle" /\ ht'[t].ret \in {"value", "written"})
            => (up /\ hs[ht[t].on] = "open")]_vars

\* C16 witness: the previous call of thread 1 ended with a failed connect; the
\* transport came back, and its next call has connected and is at its
\* transaction.
C16_Witness ==
    /\ ht[1].ret = "connect_error"
    /\ ht[1].pc = "txn"
    /\ ht[1].made = 1
    /\ ht[2].pc = "idle"
    /\ nlink = 1
    /\ up
    /\ client = "open"

\* the reader the specification describes for a UINT32 register (the code has
\* none): two words, the first the high 16 bits, the second the low 16 bits
decodeUint32(words) == Num((words[1] * 65536 + words[2]) * Den)

\* the value a poll is to store for key k when its read succeeds
PolledValue(k) ==
    LET reg == RegOf(k)
    IN  IF reg.reg_type = "uint32"
        THEN decodeUint32(WordsAt(mem, reg.address, 2))
        ELSE CurrentValue(k)

\* C17: for every enabled register the poll performs a read of the type's word
\* count and stores the decoded value (None when the read fails); for a
\* UINT32 register with words [w0, w1] that value is w0 * 65536 + w1.
C17_EveryEnabledRegisterIsRead ==
    [][\A k \in Keys :
        (poll.data[k] = Unset /\ poll'.data[k] # Unset)
            => /\ poll.pc \in {"ens_conn", "txn"}
               /\ poll'.data[k] \in {None, PolledValue(k)}]_vars

\* C18: for every integer value in -32768..32767, the word the INT16 write
\* encoding of a signed register produces is a 16-bit word, and read_int16
\* with signed = True gives back exactly value.
C18_SignedInt16RoundTrip ==
    (fout # None /\ fin.path = "number" /\ fin.signed /\ fin.value \in -32768..32767)
        => /\ fout.value \in Words16
           /\ fout.back # None => fout.back = Num(fin.value * Den)

\* C18 witness: -1 was written as 0xFFFF and read back as -1.
C18_Witness ==
    /\ fin = WriteInt16Input(-1, TRUE, "number")
    /\ fout = [value |-> 65535, back |-> Num(-1 * Den)]

\* C19: read_int16 with signed = True returns w - 0x10000 for a word w above
\* 0x7FFF and w otherwise; with signed = False it returns w unchanged.
C19_ReadInt16TwosComplement ==
    fout # None =>
        fout = Num(Den * (IF fin.signed /\ fin.word > 32767 THEN fin.word - 65536
                          ELSE fin.word))

\* C19 witness: the word 0x8000 read as signed is -32768.
C19_Witness ==
    /\ fin = ReadInt16Input(32768, TRUE)
    /\ fout = Num(-32768 * Den)

\* C20: on every INT16 write path and for either signedness the value handed
\* to the transport is a 16-bit word, equal to the value to write modulo 2^16.
C20_Int16WordIsValueMod65536 ==
    fout # None => (fout.value \in Words16 /\ fout.value = fin.value % 65536)

\* C21: every read and write request on the wire is addressed at the
\* register's declared address - 1 and carries the hub's slave id, which never
\* changes; two-word values go high word first: 5.3 is written as
\* [0x40A9, 0x999A], and the words [0x41C8, 0x0000] are read as 25.0.
C21_RequestsAddressedAndBigEndian ==
    /\ [](/\ IF poll.pc = "txn"
             THEN /\ poll.pdu.fn = "read_holding_registers"
                  /\ poll.pdu.address = PollReg.address - 1
                  /\ poll.pdu.count = WordCount(PollReg.reg_type)
                  /\ poll.pdu.device_id = DEFAULT_SLAVE_ID
             ELSE poll.pdu = NoPdu
          /\ \A w \in Writers :
                IF wr[w].pc = "txn"
                THEN /\ wr[w].pdu.fn \in {"write_register", "write_registers"}
                     /\ wr[w].pdu.address = RegOf(wr[w].req.key).address - 1
                     /\ wr[w].pdu.device_id = DEFAULT_SLAVE_ID
                     /\ Len(wr[w].pdu.values) = WordCount(RegOf(wr[w].req.key).reg_type)
                     /\ wr[w].raw = Num(Dec(5, 3)) => wr[w].pdu.values = <<16553, 39322>>
                ELSE wr[w].pdu = NoPdu
          /\ (poll.data["s3_temperature"] \notin {Unset, None}
                /\ WordsAt(mem, s3_temperature.address, 2) = <<16840, 0>>)
                => poll.data["s3_temperature"] = Num(Dec(25, 0)))
    /\ [][cfg'.slave_id = cfg.slave_id]_vars

\* C21 witness: the write of 5.3 to register 21210 is on the wire at address
\* 21209 while the poll has already read 25.0 from register 4020.
C21_Witness ==
    /\ \E w \in Writers :
        /\ wr[w].pc = "txn"
        /\ wr[w].pdu.address = 21209
        /\ wr[w].pdu.values = <<16553, 39322>>
        /\ wr[w].pdu.device_id = cfg.slave_id
    /\ poll.data["s3_temperature"] = Num(Dec(25, 0))

\* C22: for every pair of words, reading them as a FLOAT32 and encoding the
\* value read for a write gives back exactly the same two words.
C22_FloatWordsRoundTrip == fout # None => fout.words = fin.words

\* text without the characters of `chars` at its end
StripTrailing(text, chars) ==
    LET keep == {i \in 1..Len(text) : text[i] \notin chars}
    IN  IF keep = {} THEN <<>>
        ELSE SubSeq(text, 1, CHOOSE i \in keep : \A j \in keep : j <= i)

\* C23: read_string takes the bytes of the words, high byte first, drops the
\* bytes that are not ASCII and removes only trailing NUL bytes and whitespace;
\* what is empty then is None, and the 8 words of "10.10.100.50" followed by
\* four NUL bytes give "10.10.100.50".
C23_ReadStringTrimsTrailingOnly ==
    fout # Unset =>
        LET text == StripTrailing(DecodeAsciiIgnore(WordBytes(fin.words)),
                                  {0} \cup Whitespace)
        IN  /\ fout = IF text = <<>> THEN None ELSE Text(text)
            /\ fin.words = AddressWords
                => fout = Text(<<49, 48, 46, 49, 48, 46, 49, 48, 48, 46, 53, 48>>)

\* C24: whatever the configured scan interval is (an integer, a value that is
\* not a number, None or nothing), the coordinator's interval lies in 5..3600:
\* an integer is clamped to the nearest bound, any other value is replaced by
\* the default before clamping.
C24_ScanIntervalClamped ==
    fout # None =>
        LET sec == IF fin.value.k = "num" THEN fin.value.n \div Den ELSE fin.default
            want == IF sec < 5 THEN 5 ELSE IF sec > 3600 THEN 3600 ELSE sec
        IN  /\ fout.interval \in 5..3600
            /\ fout.interval = want
            /\ fout.legacy = want

\* C24 witness: no interval is configured and the default lies above the upper
\* limit: the interval is 3600.
C24_Witness ==
    /\ fin = [value |-> None, default |-> 7200]
    /\ fout = [interval |-> 3600, legacy |-> 3600]

\* C25: the cycles of a coordinator never overlap: a cycle begins, with its
\* first register and an empty map, only while no cycle is running, and a
\* running cycle ends only by publishing its snapshot or by being reported as
\* failed.
C25_CyclesNeverOverlap ==
    [][/\ npolls' # npolls
            => /\ poll.pc = "idle"
               /\ npolls' = npolls + 1
               /\ poll'.pc = "acquire" /\ poll'.idx = 1
               /\ \A k \in Keys : poll'.data[k] = Unset
       /\ (poll.pc # "idle" /\ poll'.pc = "idle") => poll.pc \in {"publish", "failed"}
       /\ (poll.pc # "idle" /\ poll'.pc # "idle") => poll'.idx >= poll.idx]_vars

\* C25 witness: the third cycle is reading after the earlier ones have ended.
C25_Witness ==
    /\ npolls = 3
    /\ poll.pc = "txn"
    /\ poll.idx = 2
    /\ data # Uninit
    /\ phase = "ready"

\* a cycle is ending in which a read returned None or which is being reported
\* as failed
CycleFailing ==
    \/ poll.pc = "failed"
    \/ /\ poll.pc = "publish"
       /\ \E k \in Keys : WordCount(RegOf(k).reg_type) > 0 /\ poll.data[k] = None

\* C26: a failure does not disable polling: after a cycle in which a read
\* failed, or which was reported as failed, a further cycle is started and
\* runs to its end (as long as the bound on cycles allows one).
C26_PollingSurvivesFailure ==
    \A n \in 1..(MaxCycles - 1) :
        (CycleFailing /\ npolls = n)
            ~> (npolls = n + 1 /\ poll.pc \in {"publish", "failed"})

\* C26 witness: the second cycle was reported as failed, and the third cycle
\* is reading.
C26_Witness ==
    /\ npolls = 3
    /\ phase = "ready"
    /\ ~poll.last_update_success
    /\ poll.pc = "txn"

\* C27: every snapshot a reader can observe has one entry, a value or None,
\* for each enabled register and no other entry; it changes only by a cycle
\* publishing its complete map or by a write replacing one entry, never to the
\* partly filled map of a running cycle.
C27_SnapshotAlwaysComplete ==
    /\ [](phase = "ready"
            => /\ data # Uninit
               /\ DOMAIN data = Keys
               /\ \A k \in Keys : data[k] # Unset)
    /\ [][(data' # data /\ data' # Uninit)
            => /\ DOMAIN data' = Keys
               /\ \A k \in Keys : data'[k] # Unset
               /\ \/ poll.pc = "publish" /\ poll'.pc = "idle"
                  \/ \E w \in Writers :
                        /\ wr[w].pc = "update"
                        /\ \A k \in Keys \ {wr[w].req.key} : data'[k] = data[k]]_vars

\* C27 witness: after a published cycle and an optimistic write, the next
\* cycle has stored its first register only, and the snapshot is complete.
C27_Witness ==
    /\ phase = "ready"
    /\ poll.pc = "txn"
    /\ poll.idx = 2
    /\ poll.data["boost_period"] = Unset
    /\ \E k \in Keys : optimistic[k] # Unset /\ data[k] = optimistic[k]
    /\ DOMAIN data = Keys


\* the threads whose request is on the wire of handle h
InFlightOn(h) == {u \in HubThreads : ht[u].pc = "wire" /\ ht[u].on = h}

\* C28: the close() of entry unload neither closes nor discards the hub's
\* client while the request of a read or of a write is in flight on it.
C28_UnloadWaitsForInFlight ==
    [][\A t \in HubThreads :
        (ht[t].op = "close" /\ cur # 0 /\ (HubStep(t, "c116") \/ HubStep(t, "c121")))
            => InFlightOn(cur) = {}]_vars


\* the gate is held by the poll only inside _read_registers and by a writer
\* only inside write_int16 / write_float
GateHeldOnlyInCall ==
    /\ lock \in {Free, PollT} \cup {W(w) : w \in Writers}
    /\ lock = PollT => poll.pc \in {"ens_conn", "txn"}
    /\ \A w \in Writers :
        lock = W(w) => (wr[w].pc \in {"ens_conn", "txn"}
                            /\ wr[w].req.path \in {"hub_int16", "hub_float"})

ExactTie(v, st) == 2 * (v % st) = st

\* C30: a requested value exactly halfway between two multiples of step is
\* snapped to the even multiple, which setValue then clamps; the rule is
\* round-half-to-even, as in the rounding of a raw value for an INT16 write.
C30_TiesSnapToEvenMultiple ==
    (fout # None /\ ExactTie(fin.value.n, fin.step.n)) =>
        LET even == RoundHalfEven(fin.value.n, fin.step.n) * fin.step.n
        IN  fout.n = IF even < fin.min_v.n THEN fin.min_v.n
                     ELSE IF even > fin.max_v.n THEN fin.max_v.n
                     ELSE even


\* C31: the raw value stored by a successful setValue is the snapped and
\* clamped request divided by the register's scale, and the value shown for it
\* before the next poll (the stored entry times the scale) is the snapped and
\* clamped request again; a scale of 0 (or none) acts as 1 on both paths.
C31_ScaleRoundTrip ==
    fout # None =>
        LET v == SnapClamp(fin.value, fin.min_v, fin.max_v, fin.step)
            sc == fin.scale
        IN  /\ fout.shown = v
            /\ (sc = None \/ sc = Num(0)) => fout.raw = v
            /\ (sc # None /\ sc # Num(0)) => fout.raw.n * sc.n = v.n * Den

\* C31 witness: with scale 2.0 and limits 0, 20, step 1.0 a request of 6.3 has
\* been stored as 3.0 and is shown as 6.0.
C31_Witness ==
    /\ fout # None
    /\ fin.scale = Num(2 * Den)
    /\ fin.value = Num(Dec(6, 3))
    /\ fin.step = Num(Dec(1, 0))
    /\ fout.raw = Num(Dec(3, 0))
    /\ fout.shown = Num(Dec(6, 0))


\* the keys of the enabled registers, in catalog order
EnabledKeys == [i \in DOMAIN registers |-> registers[i].key]

\* C32: a poll cycle reads the enabled registers one after another in catalog
\* order, each exactly once: the reads called so far are those of the first
\* registers of the catalog, in order, and a cycle that has run through has
\* called one for every enabled register.
C32_CycleReadsInCatalogOrder ==
    /\ Len(poll.reads) <= Len(EnabledKeys)
    /\ poll.reads = SubSeq(EnabledKeys, 1, Len(poll.reads))
    /\ poll.pc = "publish" => poll.reads = EnabledKeys


\* C33: once the close() of entry unload has returned, a read or write that
\* was still running in a worker thread at that moment opens no connection.
C33_NoReopenAfterUnloadClose ==
    [][\A u \in HubThreads :
        (ht[u].late /\ ht'[u] # ht[u]) => Live' \subseteq Live]_vars


\* C34: with a value map of distinct labels, an accepted async_select_option
\* writes the code mapped to the label and current_option then returns that
\* label; an option outside the map is rejected; and a snapshot entry whose
\* code is not in the map is shown as no option, one in the map as its label.
C34_SelectRoundTrip ==
    fout # None =>
        LET vm == fin.value_map
            labels == {vm[c] : c \in DOMAIN vm}
        IN  /\ fout.accepted = (fin.option \in labels)
            /\ fout.accepted => /\ fout.word \in DOMAIN vm
                                /\ vm[fout.word] = fin.option
                                /\ fout.shown = Str(fin.option)
            /\ \A c \in -2..65535 :
                fin.raw = Num(c * Den) =>
                    fout.before = IF c \in DOMAIN vm THEN Str(vm[c]) ELSE None

\* C34 witness: "Saving" was chosen while the snapshot held the unknown code
\* 5: code 2 was written, the entity shows "Saving", and showed no option
\* before.
C34_Witness ==
    /\ fout # None
    /\ fin.option = "Saving"
    /\ fin.raw = Num(5 * Den)
    /\ fout.word = 2
    /\ fout.shown = Str("Saving")
    /\ fout.before = None


=============================================================================
